---------------------------- MODULE Spec2Model ----------------------------
(***************************************************************************)
(* PromptForge Mobile (src/app.js): the credential pool (keyState,         *)
(* lastApiCallAt), the retry loop of callGeminiAPI and the batch loop of   *)
(* generatePrompts, as a state machine of the browser's event loop.        *)
(*                                                                         *)
(* Scheduling.  JavaScript runs one handler at a time, to its next await.  *)
(* An action of this module is one such run: a click handler, or the       *)
(* continuation of an async function after a timer or the network woke it. *)
(* A continuation that needs no timer (an await of an already settled      *)
(* promise) is a microtask: it runs before any other event (MicrotaskDue). *)
(*                                                                         *)
(* Time.  All times are milliseconds.  The code reads the clock only       *)
(* through Date.now() and only compares it with, or subtracts it from,     *)
(* stored timestamps (nextAt, lastApiCallAt) and timer deadlines.  The     *)
(* model keeps timestamps relative to the present instant: Date.now() is   *)
(* always DateNow, and the passing of d ms (Tick) moves every stored       *)
(* timestamp d ms into the past (Age).  A timestamp that is DateNow ms old *)
(* or older is kept as 0, which is also the value of a timestamp that was  *)
(* never set (keyState's default nextAt, the initial lastApiCallAt): the   *)
(* code cannot tell these apart, because a real Date.now() is far larger   *)
(* than MIN_DELAY_MS and than any cooldown.                                *)
(***************************************************************************)
EXTENDS Integers, Sequences, FiniteSets, TLC

\* ------------------------------------------------------------------------
\* Program constants (CONFIG and the literals of the retry loop)
\* ------------------------------------------------------------------------
MIN_DELAY_MS == 9000

COOLDOWN_MAX_MS == 10 * 60 * 1000

COOLDOWN_STEP_MS == 30000

ATTEMPTS_PER_KEY == 3

BACKOFF_429_MS == 2000

SLEEP_5XX_MS == 1500

SLEEP_CATCH_MS == 1200

SLEEP_EMPTY_MS == 800

SLEEP_ROUND_MS == 1000

\* ------------------------------------------------------------------------
\* Bounds of the model
\* ------------------------------------------------------------------------
\* network attempts issued in one run of the model, over all batches
MaxFetches == 6

\* activations of generatePrompts the model can hold at a time
MaxActive == 2

\* the largest value of the numPrompts input
MaxPrompts == 2

Min(a, b) == IF a <= b THEN a ELSE b

Max(a, b) == IF a >= b THEN a ELSE b


\* ------------------------------------------------------------------------
\* Inputs the environment draws from
\* ------------------------------------------------------------------------
\* what getApiKeys can return: the key lists the settings may hold
KeyLists == { <<>>, <<"k1">>, <<"k1", "k2">> }

Keys == {"k1", "k2"}

\* how long a fetch takes until its response (or its failure) arrives
Latency == { 300, 31000 }

\* the Retry-After header of a 429 response, in seconds (0: absent)
RetryAfter == { 0, 20 }

\* floor(Math.random() * 500) and floor(Math.random() * 600)
Jitter500 == { 250 }

Jitter600 == { 300 }

\* time the user lets pass while nothing is pending
IdleGaps == { 5000, 45000 }

\* time the two image detectors of processApiResponse take
AnalyzeMs == 120

\* What one network attempt can end in: status 429, status 5xx, another status
\* that is not ok, fetch rejecting, a 2xx response whose body is not JSON, a 2xx
\* response without text, a 2xx response with text.  The text of a response is
\* a string, as the API's schema has it, so that processApiResponse returns.
Outcomes == { "r429", "r5xx", "rOther", "netErr", "okBadJson", "okEmpty", "okText" }

Slots == 1..MaxActive

VARIABLES
    keyState,       \* Map key -> {nextAt, fails}; a function on the keys set so far
    lastApiCallAt,  \* timestamp of the last markKeyOK
    state,          \* {imageDataUrl, isGenerating, prompts, licenseValid}
    storedKeys,     \* localStorage pf_gemini_key, as the list getApiKeys reads
    inv,            \* the generatePrompts activations: locals and where they wait
    fetched,        \* number of network attempts issued so far
    rested,         \* idle time has passed since the last network attempt
    streak,         \* per key: the markKey429 calls since its last markKeyOK
    batch,          \* how the latest batch ended: the error shown, history saved
    work            \* a call of a text function under examination: input, output

vars ==
    << keyState, lastApiCallAt, state, storedKeys, inv, fetched, rested, streak,
       batch, work >>

\* ------------------------------------------------------------------------
\* The clock
\* ------------------------------------------------------------------------
\* Date.now(): the present instant, on the sliding time axis
DateNow == MIN_DELAY_MS

\* a timestamp t, d ms later
Age(t, d) == IF t > d THEN t - d ELSE 0

\* ------------------------------------------------------------------------
\* Key rotation utilities
\* ------------------------------------------------------------------------
\* keyState.get(k) || { nextAt: 0, fails: 0 }
KeyStateGet(ks, k) ==
    IF k \in DOMAIN ks THEN ks[k] ELSE [nextAt |-> 0, fails |-> 0]

KeyStateSet(ks, k, s) ==
    [x \in (DOMAIN ks) \cup {k} |-> IF x = k THEN s ELSE ks[x]]

\* waitMinDelay with Math.min in place of Math.max: it never waits
waitMinDelayMin(last, now) ==
    LET elapsed == now - last
    IN  Min(0, MIN_DELAY_MS - elapsed)

\* waitMinDelay: the time it sleeps (0: it does not sleep)
waitMinDelay(last, now) ==
    LET elapsed == now - last
    IN  Max(0, MIN_DELAY_MS - elapsed)

\* markKeyOK without s.nextAt = 0
markKeyOKKeepsCooldown(ks, key) ==
    LET s == KeyStateGet(ks, key)
    IN  KeyStateSet(ks, key, [s EXCEPT !.fails = 0])

\* markKeyOK without s.fails = 0
markKeyOKKeepsFails(ks, key) ==
    LET s == KeyStateGet(ks, key)
    IN  KeyStateSet(ks, key, [s EXCEPT !.nextAt = 0])

\* markKeyOK: the new keyState (lastApiCallAt is set by the caller's action)
markKeyOK(ks, key) ==
    LET s == KeyStateGet(ks, key)
    IN  KeyStateSet(ks, key, [s EXCEPT !.fails = 0, !.nextAt = 0])

\* the cooldown without its cap
CooldownUncapped(fails) == COOLDOWN_STEP_MS * fails

\* the cooldown of a key that failed `fails` times in a row
Cooldown(fails) == Min(COOLDOWN_MAX_MS, COOLDOWN_STEP_MS * fails)

\* markKey429: the new keyState
markKey429(ks, key, now) ==
    LET s == KeyStateGet(ks, key)
        f == s.fails + 1
    IN  KeyStateSet(ks, key, [s EXCEPT !.fails = f, !.nextAt = now + Cooldown(f)])

NoBest == [key |-> "undefined", nextAt |-> 0, fails |-> 0]

\* the scan with <= in place of <: among equal nextAt the last key wins
RECURSIVE pickLoopLastWins(_, _, _, _, _)
pickLoopLastWins(keys, ks, now, idx, best) ==
    IF idx > Len(keys)
    THEN [found |-> FALSE, key |-> best.key, nextAt |-> best.nextAt]
    ELSE LET k  == keys[idx]
             st == KeyStateGet(ks, k)
         IN  IF st.nextAt <= now
             THEN [found |-> TRUE, key |-> k, nextAt |-> st.nextAt]
             ELSE pickLoopLastWins(keys, ks, now, idx + 1,
                    IF best = NoBest \/ st.nextAt <= best.nextAt
                    THEN [key |-> k, nextAt |-> st.nextAt, fails |-> st.fails]
                    ELSE best)

\* the for loop of pickBestKey from index idx on, with the best so far
RECURSIVE pickLoop(_, _, _, _, _)
pickLoop(keys, ks, now, idx, best) ==
    IF idx > Len(keys)
    THEN [found |-> FALSE, key |-> best.key, nextAt |-> best.nextAt]
    ELSE LET k  == keys[idx]
             st == KeyStateGet(ks, k)
         IN  IF st.nextAt <= now
             THEN [found |-> TRUE, key |-> k, nextAt |-> st.nextAt]
             ELSE pickLoop(keys, ks, now, idx + 1,
                           IF best = NoBest \/ st.nextAt < best.nextAt
                           THEN [key |-> k, nextAt |-> st.nextAt, fails |-> st.fails]
                           ELSE best)

\* a scan that does not stop at the first available key: the last one wins
pickLastAvailable(keys, ks, now) ==
    LET avail == { i \in 1..Len(keys) : KeyStateGet(ks, keys[i]).nextAt <= now }
        r     == pickLoop(keys, ks, now, 1, NoBest)
    IN  IF avail # {}
        THEN [key |-> keys[CHOOSE i \in avail : \A j \in avail : j <= i], wait |-> 0]
        ELSE [key |-> r.key, wait |-> Max(0, r.nextAt - now)]

\* the scan that returns the key that is free soonest without the sleep
pickWithoutSleep(keys, ks, now) ==
    LET r == pickLoop(keys, ks, now, 1, NoBest)
    IN  [key |-> IF r.key # NoBest.key \/ Len(keys) = 0 THEN r.key ELSE keys[1],
         wait |-> 0]

\* pickBestKey: the key it returns and the time it sleeps before returning
pickBestKey(keys, ks, now) ==
    LET r == pickLoop(keys, ks, now, 1, NoBest)
    IN  IF r.found THEN [key |-> r.key, wait |-> 0]
        ELSE IF r.key # NoBest.key
             THEN [key |-> r.key, wait |-> Max(0, r.nextAt - now)]
             ELSE [key |-> IF Len(keys) > 0 THEN keys[1] ELSE "undefined", wait |-> 0]

\* getApiKeys
getApiKeys == storedKeys

\* a budget of one attempt more than three per key
maxAttemptsPlusOne(apiKeys) == Len(apiKeys) * ATTEMPTS_PER_KEY + 1

\* const maxAttempts = apiKeys.length * 3
maxAttempts(apiKeys) == Len(apiKeys) * ATTEMPTS_PER_KEY

\* ------------------------------------------------------------------------
\* Activations of generatePrompts
\* ------------------------------------------------------------------------
\* An activation is a record of the locals of generatePrompts (i, numPrompts) and
\* of the callGeminiAPI it awaits (apiKeys, attempt, lastError, apiKey), with pc
\* and wakeAt (the deadline of the timer, or the arrival of the response, it
\* waits for) and two observations: issued, the fetches this callGeminiAPI made,
\* slept, whether pickBestKey slept in the current iteration, and clientErr,
\* whether the iteration about to begin follows an attempt that ended in a
\* response that is not ok, not 429 and not 5xx.
\* Where an activation is suspended:
\*   "iter"       continuation queued at the head of the retry loop (line 860)
\*   "sleepPick"  in pickBestKey's sleep (line 210)
\*   "sleepGate"  in waitMinDelay's sleep (line 179)
\*   "fetch"      awaiting the response of fetch (line 868): the attempt in flight
\*   "sleep429"   line 878      "sleep5xx"   line 886
\*   "sleepEmpty" line 899      "sleepCatch" line 909
\*   "process"    awaiting processApiResponse (line 904)
\*   "sleepRound" the pause between two rounds (line 1028)
\*   "idle"       no activation: not called yet, or returned
TimerPcs == { "sleepPick", "sleepGate", "fetch", "sleep429", "sleep5xx",
              "sleepEmpty", "sleepCatch", "process", "sleepRound" }

\* the retry loop's own sleeps, after which it continues with the next iteration
RetrySleepPcs == { "sleep429", "sleep5xx", "sleepEmpty", "sleepCatch" }

Blank(pc) ==
    [ pc |-> pc, wakeAt |-> 0, i |-> 0, numPrompts |-> 0, apiKeys |-> <<>>,
      attempt |-> 0, lastError |-> "none", apiKey |-> "none",
      issued |-> 0, slept |-> FALSE, clientErr |-> FALSE ]

\* a continuation is queued as a microtask: it runs before any other event
MicrotaskDue == \E p \in Slots : inv[p].pc = "iter"

\* the activation's timer has fired, or its response has arrived
Due(p) == inv[p].pc \in TimerPcs /\ inv[p].wakeAt <= DateNow

\* no text function is under examination
NoWork == [fn |-> "none"]

\* no batch has ended since the latest one began
NoOutcome == [error |-> "none", saved |-> FALSE]

\* a failed batch that is saved to the history all the same
FailedSaved(error) == [error |-> error, saved |-> TRUE]

\* the batch ended in the catch of line 1035 with err.message shown
Failed(error) == [error |-> error, saved |-> FALSE]

\* the batch ended after saveToHistory (line 1032)
Saved == [error |-> "none", saved |-> TRUE]

\* the program after construction, with one of keyLists in localStorage
Constructed(keyLists) ==
    /\ keyState = << >>
    /\ lastApiCallAt = 0
    /\ state \in [ imageDataUrl : {"null"}, isGenerating : {FALSE},
                   prompts : {<< >>}, licenseValid : BOOLEAN ]
    /\ storedKeys \in keyLists
    /\ inv = [p \in Slots |-> Blank("idle")]
    /\ fetched = 0
    /\ rested = FALSE
    /\ streak = [k \in Keys |-> 0]
    /\ batch = NoOutcome

InitWith(keyLists) == Constructed(keyLists) /\ work = NoWork

Init == InitWith(KeyLists)

\* a finally block that leaves state.isGenerating as it is
BatchEndKeeps(st) == st

\* the finally block of generatePrompts (line 1039)
BatchEnd(st) == [st EXCEPT !.isGenerating = FALSE]

\* the checks before the retry loop without the check of the image
CallRejectedKeysOnly(keys, image) == Len(keys) = 0

\* callGeminiAPI's checks before the retry loop (lines 730, 735): does it throw?
CallRejected(keys, image) == Len(keys) = 0 \/ image # "ok"

\* the error callGeminiAPI throws before the retry loop (lines 731, 736)
EntryError(keys, image) == IF Len(keys) = 0 THEN "noKey" ELSE "invalidImage"

\* Round i of activation p begins (line 1020), with `st` the state record as
\* the caller leaves it: callGeminiAPI runs up to the head of its retry loop,
\* or throws, which ends the batch (catch, finally).
StartRound(p, i, n, st) ==
    LET keys == getApiKeys
    IN  IF CallRejected(keys, st.imageDataUrl)
        THEN /\ state' = BatchEnd(st)
             /\ inv' = [inv EXCEPT ![p] = Blank("idle")]
             /\ batch' = Failed(EntryError(keys, st.imageDataUrl))
        ELSE /\ state' = st
             /\ inv' = [inv EXCEPT ![p] =
                   [Blank("iter") EXCEPT !.i = i, !.numPrompts = n, !.apiKeys = keys]]
             /\ batch' = NoOutcome

\* the guard of line 988 without state.imageDataUrl
BusyGeneratingOnly(st) == st.isGenerating

\* the guard of line 988 without state.isGenerating
BusyImageOnly(st) == st.imageDataUrl = "null"

\* the guard of line 988
Busy(st) == st.isGenerating \/ st.imageDataUrl = "null"

FreeSlots == { p \in Slots : inv[p].pc = "idle" }

NewSlot == CHOOSE p \in FreeSlots : \A q \in FreeSlots : p <= q

\* generatePrompts, from the click to its first suspension
generatePrompts(env) ==
    /\ ~MicrotaskDue
    /\ IF ~state.licenseValid \/ Busy(state)
       THEN UNCHANGED vars
       ELSE /\ FreeSlots # {}
            /\ \E n \in 1..MaxPrompts :
                 /\ env.reserve =>
                       fetched + n * maxAttempts(getApiKeys) <= env.budget
                 /\ StartRound(NewSlot, 0, n,
                            [state EXCEPT !.isGenerating = TRUE, !.prompts = << >>])
            /\ UNCHANGED << keyState, lastApiCallAt, storedKeys, work, fetched,
                            rested, streak >>

\* fetch is called (line 868): rec is the activation just before
IssueFetch(p, rec, env) ==
    /\ fetched < env.budget
    /\ fetched' = fetched + 1
    /\ rested' = FALSE
    /\ \E lat \in env.latency :
        inv' = [inv EXCEPT ![p] = [rec EXCEPT !.pc = "fetch",
                                              !.wakeAt = DateNow + lat,
                                              !.issued = rec.issued + 1]]

\* await waitMinDelay() (line 863), then the fetch
Gate(p, rec, env) ==
    LET wait == waitMinDelay(lastApiCallAt, DateNow)
    IN  IF wait > 0
        THEN /\ inv' = [inv EXCEPT ![p] = [rec EXCEPT !.pc = "sleepGate",
                                                      !.wakeAt = DateNow + wait]]
             /\ UNCHANGED << fetched, rested >>
        ELSE IssueFetch(p, rec, env)

\* throw new Error('All API keys failed'), whatever was recorded
ThrownGeneric(lastError) == "allFailed"

\* the error callGeminiAPI throws when its budget is spent (line 913)
Thrown(lastError) == IF lastError # "none" THEN lastError ELSE "allFailed"

\* while (true): the loop without its budget
BudgetLeftAlways(attempt, apiKeys) == TRUE

\* while (attempt < maxAttempts) (line 860)
BudgetLeft(attempt, apiKeys) == attempt < maxAttempts(apiKeys)

\* The head of the retry loop (lines 860-863): one iteration up to its first
\* suspension, or the throw of line 913 and with it the end of the batch.
LoopHead(p, env) ==
    /\ inv[p].pc = "iter"
    /\ LET rec == inv[p]
       IN  IF BudgetLeft(rec.attempt, rec.apiKeys)
           THEN LET pick == pickBestKey(rec.apiKeys, keyState, DateNow)
                    r1   == [rec EXCEPT !.attempt = rec.attempt + 1,
                                        !.apiKey = pick.key,
                                        !.slept = pick.wait > 0,
                                        !.clientErr = FALSE]
                IN  /\ IF pick.wait > 0
                       THEN /\ inv' = [inv EXCEPT ![p] =
                                   [r1 EXCEPT !.pc = "sleepPick",
                                              !.wakeAt = DateNow + pick.wait]]
                            /\ UNCHANGED << fetched, rested >>
                       ELSE Gate(p, r1, env)
                    /\ UNCHANGED << state, batch >>
           ELSE /\ inv' = [inv EXCEPT ![p] = Blank("idle")]
                /\ state' = BatchEnd(state)
                /\ batch' = Failed(Thrown(rec.lastError))
                /\ UNCHANGED << fetched, rested >>
    /\ UNCHANGED << keyState, lastApiCallAt, storedKeys, work, streak >>

\* pickBestKey's sleep is over: it returns best.key; then the gate
ResumePick(p, env) ==
    /\ ~MicrotaskDue
    /\ inv[p].pc = "sleepPick" /\ Due(p)
    /\ Gate(p, inv[p], env)
    /\ UNCHANGED << keyState, lastApiCallAt, state, storedKeys, work, streak, batch >>

\* waitMinDelay's sleep is over: the fetch is issued
ResumeGate(p, env) ==
    /\ ~MicrotaskDue
    /\ inv[p].pc = "sleepGate" /\ Due(p)
    /\ IssueFetch(p, inv[p], env)
    /\ UNCHANGED << keyState, lastApiCallAt, state, storedKeys, work, streak, batch >>

\* the penalized outcomes, with the 5xx responses among them
PenalizedWith5xx == { "r429", "r5xx", "rOther", "netErr", "okBadJson" }

\* ------------------------------------------------------------------------
\* The outcome of an attempt (lines 874-910)
\* ------------------------------------------------------------------------
\* the outcomes after which the code calls markKey429 (lines 875, 889, 907);
\* a body that response.json() cannot parse (line 894) throws into the catch
Penalized == { "r429", "rOther", "netErr", "okBadJson" }

\* keyState after the outcome o of an attempt made with `key`
PoolAfter(o, ks, key, now) ==
    IF o \in Penalized THEN markKey429(ks, key, now)
    ELSE IF o = "okText" THEN markKeyOK(ks, key)
    ELSE ks

\* lastApiCallAt after the outcome o (line 187, reached from line 903 only)
GateAfter(o, last, now) == IF o = "okText" THEN now ELSE last

\* the time the activation may wait for after the outcome o of attempt number a:
\* the sleep the retry loop asks for, or the time processApiResponse takes
RetrySleeps(o, a) ==
    CASE o = "r429"  -> { BACKOFF_429_MS * a + (IF ra > 0 THEN ra * 1000 ELSE 0) + j :
                            ra \in RetryAfter, j \in Jitter500 }
      [] o = "r5xx"  -> { SLEEP_5XX_MS + j : j \in Jitter600 }
      [] o \in {"netErr", "okBadJson"} -> { SLEEP_CATCH_MS + j : j \in Jitter500 }
      [] o = "okEmpty" -> { SLEEP_EMPTY_MS }
      [] o = "okText" -> { AnalyzeMs }
      [] OTHER -> { 0 }

\* where the activation waits after the outcome o
PcAfter(o) ==
    CASE o = "r429"    -> "sleep429"
      [] o = "r5xx"    -> "sleep5xx"
      [] o \in {"netErr", "okBadJson"} -> "sleepCatch"
      [] o = "okEmpty" -> "sleepEmpty"
      [] o = "rOther"  -> "iter"
      [] OTHER         -> "process"

\* lastError as the outcome o leaves it before the activation suspends
\* (a 429 records its error only after its sleep, line 879)
ErrorAfter(o, lastError) ==
    CASE o = "rOther"    -> "api"
      [] o \in {"netErr", "okBadJson"} -> "exception"
      [] o = "okEmpty"   -> "empty"
      [] OTHER           -> lastError

\* the calls of markKey429 on a key since the last markKeyOK on it
StreakAfter(o, sk, key) ==
    IF o \in Penalized THEN [sk EXCEPT ![key] = @ + 1]
    ELSE IF o = "okText" THEN [sk EXCEPT ![key] = 0]
    ELSE sk

\* The response of the attempt in flight arrives with outcome o, or the fetch fails
FetchReturns(p, o) ==
    /\ ~MicrotaskDue
    /\ inv[p].pc = "fetch" /\ Due(p)
    /\ LET rec == inv[p]
       IN  /\ keyState' = PoolAfter(o, keyState, rec.apiKey, DateNow)
           /\ lastApiCallAt' = GateAfter(o, lastApiCallAt, DateNow)
           /\ \E ms \in RetrySleeps(o, rec.attempt) :
                inv' = [inv EXCEPT ![p] =
                    [rec EXCEPT !.pc = PcAfter(o),
                                !.wakeAt = DateNow + ms,
                                !.lastError = ErrorAfter(o, rec.lastError),
                                !.clientErr = (o = "rOther")]]
           /\ streak' = StreakAfter(o, streak, rec.apiKey)
    /\ UNCHANGED << state, storedKeys, work, fetched, rested, batch >>

\* a sleep of the retry loop is over: continue with the next iteration
ResumeRetry(p) ==
    /\ ~MicrotaskDue
    /\ inv[p].pc \in RetrySleepPcs /\ Due(p)
    /\ inv' = [inv EXCEPT ![p] =
          [inv[p] EXCEPT !.pc = "iter",
                         !.lastError = IF inv[p].pc = "sleep429" THEN "rate" ELSE @]]
    /\ UNCHANGED << keyState, lastApiCallAt, state, storedKeys, work, fetched, rested,
                    streak, batch >>

\* processApiResponse returns: callGeminiAPI returns the prompt of round i
\* (lines 1024-1032), and the batch pauses before the next round or ends
ProcessDone(p) ==
    /\ ~MicrotaskDue
    /\ inv[p].pc = "process" /\ Due(p)
    /\ LET rec == inv[p]
           st  == [state EXCEPT !.prompts = Append(@, rec.i)]
       IN  IF rec.i < rec.numPrompts - 1
           THEN /\ state' = st
                /\ inv' = [inv EXCEPT ![p] =
                      [Blank("sleepRound") EXCEPT !.i = rec.i,
                                                  !.numPrompts = rec.numPrompts,
                                                  !.wakeAt = DateNow + SLEEP_ROUND_MS]]
                /\ UNCHANGED batch
           ELSE /\ state' = BatchEnd(st)
                /\ inv' = [inv EXCEPT ![p] = Blank("idle")]
                /\ batch' = Saved
    /\ UNCHANGED << keyState, lastApiCallAt, storedKeys, work, fetched, rested, streak >>

\* the pause between rounds is over: the next round begins
ResumeRound(p) ==
    /\ ~MicrotaskDue
    /\ inv[p].pc = "sleepRound" /\ Due(p)
    /\ StartRound(p, inv[p].i + 1, inv[p].numPrompts, state)
    /\ UNCHANGED << keyState, lastApiCallAt, storedKeys, work, fetched, rested, streak >>

\* ------------------------------------------------------------------------
\* The environment
\* ------------------------------------------------------------------------
\* The retry loop works on the imageDataUrl it was called with and never reads
\* state.imageDataUrl, so a change of the preview during a round has the effect
\* of the same change made when the round is over: the model lets the user
\* change the preview between rounds and between batches.
BetweenRounds == \A p \in Slots : inv[p].pc \in {"idle", "sleepRound"}

\* setPreviewImage (line 606): a data URL of an image, or one that is none
setPreviewImage ==
    /\ BetweenRounds
    /\ \E img \in {"ok", "bad"} : state' = [state EXCEPT !.imageDataUrl = img]
    /\ UNCHANGED << keyState, lastApiCallAt, storedKeys, work, inv, fetched, rested,
                    streak, batch >>

\* clearPreview (line 613)
clearPreview ==
    /\ BetweenRounds
    /\ state' = [state EXCEPT !.imageDataUrl = "null"]
    /\ UNCHANGED << keyState, lastApiCallAt, storedKeys, work, inv, fetched, rested,
                    streak, batch >>

\* the user clicks Clear (line 1343): clearOutput (lines 1080-1086).  The retry
\* loop does not read state.prompts either.
clearOutput ==
    /\ BetweenRounds
    /\ state' = [state EXCEPT !.prompts = << >>]
    /\ UNCHANGED << keyState, lastApiCallAt, storedKeys, work, inv, fetched, rested,
                    streak, batch >>

\* activateLicense with a valid key (line 501)
activateLicense ==
    /\ ~MicrotaskDue
    /\ state' = [state EXCEPT !.licenseValid = TRUE]
    /\ UNCHANGED << keyState, lastApiCallAt, storedKeys, work, inv, fetched, rested,
                    streak, batch >>

Waiting == { p \in Slots : inv[p].pc \in TimerPcs }

\* the time to the earliest deadline
NextDeadline ==
    LET p == CHOOSE q \in Waiting : \A r \in Waiting : inv[q].wakeAt <= inv[r].wakeAt
    IN  inv[p].wakeAt - DateNow

\* Time passes while every activation is suspended: up to the next deadline,
\* or for a while when nothing is pending.
Tick ==
    /\ ~MicrotaskDue
    /\ \A p \in Slots : ~Due(p)
    /\ Waiting = {} => ~rested
    /\ rested' = (rested \/ Waiting = {})
    /\ \E d \in (IF Waiting = {} THEN IdleGaps
                 ELSE { NextDeadline }) :
         /\ keyState' = [k \in DOMAIN keyState |->
                            [keyState[k] EXCEPT !.nextAt = Age(@, d)]]
         /\ lastApiCallAt' = Age(lastApiCallAt, d)
         /\ inv' = [p \in Slots |-> [inv[p] EXCEPT !.wakeAt = Age(@, d)]]
    /\ UNCHANGED << state, storedKeys, work, fetched, streak, batch >>

\* What a run's environment may do: the outcomes and latencies of the network,
\* the number of attempts the run explores (budget), and whether a batch is
\* only started when the budget covers its worst case (reserve), so that no
\* batch is cut off by the budget.
NextIn(env) ==
    \/ generatePrompts(env)
    \/ \E p \in Slots : LoopHead(p, env)
    \/ \E p \in Slots : ResumePick(p, env)
    \/ \E p \in Slots : ResumeGate(p, env)
    \/ \E p \in Slots, o \in env.outcomes : FetchReturns(p, o)
    \/ \E p \in Slots : ResumeRetry(p)
    \/ \E p \in Slots : ProcessDone(p)
    \/ \E p \in Slots : ResumeRound(p)
    \/ setPreviewImage
    \/ clearPreview
    \/ clearOutput
    \/ activateLicense
    \/ Tick

MainEnv ==
    [ outcomes |-> Outcomes, latency |-> Latency, budget |-> MaxFetches,
      reserve |-> FALSE ]

Next == NextIn(MainEnv)

Spec == Init /\ [][Next]_vars

\* The runs in which every timer fires and every network call completes, and in
\* which a batch is started only when the attempts left to the run cover it, so
\* that every invocation runs to its end.
FairEnv == [MainEnv EXCEPT !.reserve = TRUE]

FairNext == NextIn(FairEnv)

Fairness ==
    /\ WF_vars(Tick)
    /\ \A p \in Slots :
         /\ WF_vars(LoopHead(p, FairEnv))
         /\ WF_vars(ResumePick(p, FairEnv))
         /\ WF_vars(ResumeGate(p, FairEnv))
         /\ WF_vars(\E o \in Outcomes : FetchReturns(p, o))
         /\ WF_vars(ResumeRetry(p))
         /\ WF_vars(ProcessDone(p))
         /\ WF_vars(ResumeRound(p))

FairSpec == Init /\ [][FairNext]_vars /\ Fairness

\* A run with two keys on a network whose latencies add up, with the 9000 ms
\* gate, to one 30000 ms cooldown step (300 + 9000 + 20700): the cooldowns of
\* the two keys can end at the same instant.
TieLatency == { 300, 20700 }

TieEnv ==
    [ outcomes |-> { "rOther", "okEmpty", "okText" }, latency |-> TieLatency,
      budget |-> MaxFetches, reserve |-> FALSE ]

TieInit == InitWith({ <<"k1", "k2">> })

TieNext == NextIn(TieEnv)

TieSpec == TieInit /\ [][TieNext]_vars

\* A run with one key, long enough for that key to fail more than twenty times
\* in a row, where 30000 * fails passes COOLDOWN_MAX_MS.
CapFetches == 21

CapEnv ==
    [ outcomes |-> { "rOther", "okEmpty", "okText" }, latency |-> { 300 },
      budget |-> CapFetches, reserve |-> FALSE ]

CapInit == InitWith({ <<"k1">> })

CapNext == NextIn(CapEnv)

CapSpec == CapInit /\ [][CapNext]_vars

-----------------------------------------------------------------------------
\* The text utilities (lines 119-168). A string is a sequence of characters,
\* each character a string of length one; indices in the operators below are
\* those of the code (they start at 0).

\* String.prototype.slice(from, to) for 0 <= from
Slice(s, from, to) == SubSeq(s, from + 1, Min(to, Len(s)))

\* String.prototype.lastIndexOf(c): the last index of c in s, -1 without one
lastIndexOf(s, c) ==
    LET at == { i \in 1..Len(s) : s[i] = c }
    IN  IF at = {} THEN -1 ELSE (CHOOSE i \in at : \A j \in at : j <= i) - 1

\* \s, among the characters of the model
Whitespace == { " " }

\* the class [\s,.;:\-] of the pattern of line 124 (lines 124 and 164 also
\* list the en dash and the em dash, which no text of the model contains)
TrailingClass == Whitespace \cup { ",", ".", ";", ":", "-" }

\* s.replace(/[class]+$/, "")
RECURSIVE StripEnd(_, _)
StripEnd(s, class) ==
    IF Len(s) > 0 /\ s[Len(s)] \in class
    THEN StripEnd(SubSeq(s, 1, Len(s) - 1), class)
    ELSE s

RECURSIVE StripStart(_, _)
StripStart(s, class) ==
    IF Len(s) > 0 /\ s[1] \in class THEN StripStart(Tail(s), class) ELSE s

\* String.prototype.trim()
trim(s) == StripStart(StripEnd(s, Whitespace), Whitespace)

\* a hard cut at maxChars, whatever the text holds
clampHardCut(text, maxChars) == Slice(text, 0, maxChars)

\* clampToMaxChars (lines 119-125). lastSpace > maxChars * 0.6 compares a whole
\* number with a product in floating point; the product is exact to within
\* less than half a unit in the last place, so the comparison is that of
\* 10 * lastSpace with 6 * maxChars.
clampToMaxChars(text, maxChars) ==
    IF Len(text) = 0 \/ maxChars = 0 \/ Len(text) <= maxChars
    THEN text
    ELSE LET out == Slice(text, 0, maxChars)
             lastSpace == lastIndexOf(out, " ")
             cut == IF 10 * lastSpace > 6 * maxChars
                    THEN Slice(out, 0, lastSpace)
                    ELSE out
         IN  trim(StripEnd(cut, TrailingClass))

\* the variables of the program, which a call of a text function leaves alone
app ==
    << keyState, lastApiCallAt, state, storedKeys, inv, fetched, rested, streak,
       batch >>

\* the characters of the texts handed to clampToMaxChars and addSuffixSafely:
\* two letters, the space and one character of the trailing class
Alphabet == { "a", "b", " ", "," }

\* the strings over Alphabet of length at most n
Texts(n) == UNION { [1..k -> Alphabet] : k \in 0..n }

\* the longest text handed to clampToMaxChars
MaxText == 6

\* the largest maxChars handed to clampToMaxChars
MaxLimit == 5

\* A call clampToMaxChars(text, maxChars) of any text with any positive limit
ClampInit ==
    /\ Constructed({ << >> })
    /\ work \in [ fn : {"clamp"}, text : Texts(MaxText), maxChars : 1..MaxLimit,
                  out : { << >> }, step : {0} ]

clampCall ==
    /\ work.fn = "clamp" /\ work.step = 0
    /\ work' = [work EXCEPT !.out = clampToMaxChars(work.text, work.maxChars),
                            !.step = 1]
    /\ UNCHANGED app

ClampSpec == ClampInit /\ [][clampCall]_vars

\* the letters, for the patterns with the flag i
LowerCase ==
    << "a", "b", "c", "d", "e", "f", "g", "h", "i", "j", "k", "l", "m",
       "n", "o", "p", "q", "r", "s", "t", "u", "v", "w", "x", "y", "z" >>

UpperCase ==
    << "A", "B", "C", "D", "E", "F", "G", "H", "I", "J", "K", "L", "M",
       "N", "O", "P", "Q", "R", "S", "T", "U", "V", "W", "X", "Y", "Z" >>

\* the character a pattern with the flag i compares
Folded == [c \in { UpperCase[i] : i \in 1..26 } |->
              LowerCase[CHOOSE i \in 1..26 : UpperCase[i] = c]]

Fold(c) == IF c \in DOMAIN Folded THEN Folded[c] ELSE c

\* does s hold the characters of lit from index i (from 1) on, whatever the case
LiteralAt(s, i, lit) ==
    /\ i + Len(lit) - 1 <= Len(s)
    /\ \A j \in 1..Len(lit) : Fold(s[i + j - 1]) = Fold(lit[j])

\* new RegExp(escaped phrase, "i").test(line) (lines 156, 157): the phrase,
\* its special characters escaped, occurs in the line, whatever the case
PhraseIn(line, phrase) == \E i \in 1..(Len(line) + 1) : LiteralAt(line, i, phrase)

\* the class [,.;:-] of the pattern of line 159
JoinClass == { ",", ".", ";", ":", "-" }

\* the join of line 159: a space after punctuation, a comma and a space else
Join(t) == IF Len(t) > 0 /\ t[Len(t)] \in JoinClass THEN << " " >> ELSE << ",", " " >>

\* the core of line 162
core162(t, budget) == clampToMaxChars(t, budget)

\* addSuffixSafely (lines 153-168); its operations on strings do not throw
addSuffixSafely(line, phrase, maxChars) ==
    IF Len(phrase) = 0 THEN clampToMaxChars(line, maxChars)
    ELSE IF PhraseIn(line, phrase) THEN clampToMaxChars(line, maxChars)
    ELSE LET t == trim(line)
             join == Join(t)
             need == join \o phrase
             budget == Max(0, maxChars - Len(need))
             core == trim(StripEnd(trim(core162(t, budget)), TrailingClass))
         IN  (IF Len(core) > 0 THEN core \o join ELSE << >>) \o phrase

\* the longest line handed to addSuffixSafely
MaxLine == 5

\* the phrases handed to addSuffixSafely
Phrases == { << >>, << "b" >>, << "a", "b" >>, << "B", ",", "a" >> }

\* A call addSuffixSafely(line, phrase, maxChars) of any line with any phrase
\* and any positive limit, and a second call on what the first returned
SuffixInit ==
    /\ Constructed({ << >> })
    /\ work \in [ fn : {"suffix"}, line : Texts(MaxLine), phrase : Phrases,
                  maxChars : 1..MaxLimit, out : { << >> }, again : { << >> },
                  step : {0} ]

addSuffixCall ==
    /\ work.fn = "suffix" /\ work.step = 0
    /\ work' = [work EXCEPT
                  !.out = addSuffixSafely(work.line, work.phrase, work.maxChars),
                  !.step = 1]
    /\ UNCHANGED app

addSuffixAgain ==
    /\ work.fn = "suffix" /\ work.step = 1
    /\ work' = [work EXCEPT
                  !.again = addSuffixSafely(work.out, work.phrase, work.maxChars),
                  !.step = 2]
    /\ UNCHANGED app

SuffixNext == addSuffixCall \/ addSuffixAgain

SuffixSpec == SuffixInit /\ [][SuffixNext]_vars

-----------------------------------------------------------------------------
\* The patterns of stripCopySpace and forceWhiteBackground (lines 128-150). A
\* pattern is a sequence of items: a literal, a run of whitespace of at least
\* `min` characters, a word boundary, the end of the string, or a choice among
\* patterns in the order written (an optional group is the choice between the
\* group and the empty pattern). All of them carry the flag i.

Lit(s) == [t |-> "lit", lit |-> s, min |-> 0, alts |-> << >>]

Ws(n) == [t |-> "ws", lit |-> << >>, min |-> n, alts |-> << >>]

WordEdge == [t |-> "b", lit |-> << >>, min |-> 0, alts |-> << >>]

AtEnd == [t |-> "end", lit |-> << >>, min |-> 0, alts |-> << >>]

Alt(ps) == [t |-> "alt", lit |-> << >>, min |-> 0, alts |-> ps]

Opt(p) == Alt(<< p, << >> >>)

Digits == { "0", "1", "2", "3", "4", "5", "6", "7", "8", "9" }

\* the characters of \w
WordChars ==
    { LowerCase[i] : i \in 1..26 } \cup { UpperCase[i] : i \in 1..26 }
        \cup Digits \cup { "_" }

IsWordChar(c) == c \in WordChars

\* \b at index i (from 1): a word character on exactly one side
IsWordEdge(s, i) ==
    (i > 1 /\ IsWordChar(s[i - 1])) # (i <= Len(s) /\ IsWordChar(s[i]))

\* the length of the run of whitespace of s that begins at index i
RECURSIVE RunOfSpace(_, _)
RunOfSpace(s, i) ==
    IF i <= Len(s) /\ s[i] \in Whitespace THEN 1 + RunOfSpace(s, i + 1) ELSE 0

\* The index after the match of pat in s that begins at index i, as the
\* backtracking matcher finds it (quantifiers greedy, choices in order), and 0
\* when pat does not match there.
RECURSIVE MatchEnd(_, _, _)
RECURSIVE MatchWs(_, _, _, _, _)
RECURSIVE MatchAlt(_, _, _, _)
MatchEnd(pat, s, i) ==
    IF Len(pat) = 0 THEN i
    ELSE LET h == Head(pat)
             rest == Tail(pat)
         IN  CASE h.t = "lit" ->
                    IF LiteralAt(s, i, h.lit)
                    THEN MatchEnd(rest, s, i + Len(h.lit))
                    ELSE 0
               [] h.t = "b" -> IF IsWordEdge(s, i) THEN MatchEnd(rest, s, i) ELSE 0
               [] h.t = "end" -> IF i = Len(s) + 1 THEN MatchEnd(rest, s, i) ELSE 0
               [] h.t = "ws" -> MatchWs(rest, s, i, RunOfSpace(s, i), h.min)
               [] h.t = "alt" -> MatchAlt(h.alts, rest, s, i)

\* a run of whitespace: the longest first, then one character less, down to min
MatchWs(rest, s, i, n, min) ==
    IF n < min THEN 0
    ELSE LET e == MatchEnd(rest, s, i + n)
         IN  IF e # 0 THEN e ELSE MatchWs(rest, s, i, n - 1, min)

\* a choice: the first of the alternatives with which the rest matches
MatchAlt(alts, rest, s, i) ==
    IF Len(alts) = 0 THEN 0
    ELSE LET e == MatchEnd(Head(alts) \o rest, s, i)
         IN  IF e # 0 THEN e ELSE MatchAlt(Tail(alts), rest, s, i)

\* s.replace(/pat/gi, with) from index i on: the matches from left to right,
\* none overlapping another (no pattern of the program matches the empty string)
RECURSIVE ReplaceFrom(_, _, _, _, _)
ReplaceFrom(found, pat, with, s, i) ==
    LET ahead == { k \in found : k >= i }
        at == CHOOSE k \in ahead : \A j \in ahead : k <= j
    IN  IF ahead = {} THEN SubSeq(s, i, Len(s))
        ELSE SubSeq(s, i, at - 1) \o with
                 \o ReplaceFrom(found, pat, with, s, MatchEnd(pat, s, at))

\* the search of a match begins where the match before it ended
ReplaceAll(pat, with, s) ==
    ReplaceFrom({ i \in 1..Len(s) : MatchEnd(pat, s, i) > i }, pat, with, s, 1)

\* pattern.test(s)
Test(pat, s) == \E i \in 1..(Len(s) + 1) : MatchEnd(pat, s, i) # 0

\* the words of the patterns, character by character
Word ==
    [ copy |-> <<"c","o","p","y">>,
      space |-> <<"s","p","a","c","e">>,
      negative |-> <<"n","e","g","a","t","i","v","e">>,
      on |-> <<"o","n">>,
      at |-> <<"a","t">>,
      to |-> <<"t","o">>,
      toward |-> <<"t","o","w","a","r","d">>,
      towards |-> <<"t","o","w","a","r","d","s">>,
      the |-> <<"t","h","e">>,
      left |-> <<"l","e","f","t">>,
      right |-> <<"r","i","g","h","t">>,
      top |-> <<"t","o","p">>,
      bottom |-> <<"b","o","t","t","o","m">>,
      center |-> <<"c","e","n","t","e","r">>,
      a |-> <<"a">>,
      n |-> <<"n">>,
      against |-> <<"a","g","a","i","n","s","t">>,
      with |-> <<"w","i","t","h">>,
      transparent |-> <<"t","r","a","n","s","p","a","r","e","n","t">>,
      no |-> <<"n","o">>,
      alpha |-> <<"a","l","p","h","a">>,
      clear |-> <<"c","l","e","a","r">>,
      background |-> <<"b","a","c","k","g","r","o","u","n","d">>,
      isolated |-> <<"i","s","o","l","a","t","e","d">> ]

\* (w1|w2|...): a choice among words
AnyOf(ws) == Alt([k \in 1..Len(ws) |-> << Lit(ws[k]) >>])

\* /\bcopy\s*space\b(?:\s*(on|at|to|toward|towards)\s*(the)?
\*   \s*(left|right|top|bottom|center))?/gi (line 131)
CopySpace ==
    << WordEdge, Lit(Word.copy), Ws(0), Lit(Word.space), WordEdge,
       Opt(<< Ws(0), AnyOf(<< Word.on, Word.at, Word.to, Word.toward, Word.towards >>),
              Ws(0), Opt(<< Lit(Word.the) >>),
              Ws(0), AnyOf(<< Word.left, Word.right, Word.top, Word.bottom, Word.center >>) >>) >>

\* /\bnegative\s*space\b/gi (line 132)
NegativeSpace == << WordEdge, Lit(Word.negative), Ws(0), Lit(Word.space), WordEdge >>

\* the replacement ", " of line 133
Comma == << ",", " " >>

\* stripCopySpace (lines 128-135)
stripCopySpace(line) ==
    LET out1 == ReplaceAll(CopySpace, << >>, line)
        out2 == ReplaceAll(NegativeSpace, << >>, out1)
        out3 == ReplaceAll(<< Ws(2) >>, << " " >>, out2)
        out4 == ReplaceAll(<< Ws(1), Lit(<< "," >>) >>, Comma, out3)
        out5 == ReplaceAll(<< Lit(<< "," >>), Ws(0), Lit(<< "," >>) >>, Comma, out4)
        out6 == ReplaceAll(<< Lit(<< "," >>), Ws(0), AtEnd >>, << >>, out5)
    IN  trim(out6)

\* (?:an?\s+)?
AnArticle == Opt(<< Lit(Word.a), Opt(<< Lit(Word.n) >>), Ws(1) >>)

\* /\b<prep>\s+(?:an?\s+)?transparent\s+background\b/gi (lines 141-143)
Transparent(prep) ==
    << WordEdge, Lit(prep), Ws(1), AnArticle, Lit(Word.transparent), Ws(1),
       Lit(Word.background), WordEdge >>

\* /\b<kind>\s+background\b/gi (lines 144-147)
Background(kind) == << WordEdge, Lit(kind), Ws(1), Lit(Word.background), WordEdge >>

\* /\bisolated(?:\s+on)?\s+(?:an?\s+)?(?:transparent|clear|alpha)
\*   \s+background\b/gi (line 148)
Isolated ==
    << WordEdge, Lit(Word.isolated), Opt(<< Ws(1), Lit(Word.on) >>), Ws(1), AnArticle,
       AnyOf(<< Word.transparent, Word.clear, Word.alpha >>), Ws(1), Lit(Word.background),
       WordEdge >>

\* "white background" (lines 144-147)
WhiteBackground == <<"w","h","i","t","e"," ","b","a","c","k","g","r","o","u","n","d">>

\* " a white background", after "on", "against" and "with" (lines 141-143)
AWhiteBackground == <<" ","a"," ","w","h","i","t","e"," ","b","a","c","k","g","r","o","u","n","d">>

\* "isolated on white background" (lines 148, 947, 949)
ISOLATED_PHRASE ==
    <<"i","s","o","l","a","t","e","d"," ","o","n"," ","w","h","i","t","e"," ",
        "b","a","c","k","g","r","o","u","n","d">>

\* forceWhiteBackground (lines 138-150)
forceWhiteBackground(line) ==
    LET out1 == ReplaceAll(Transparent(Word.on), Word.on \o AWhiteBackground, line)
        out2 == ReplaceAll(Transparent(Word.against), Word.against \o AWhiteBackground,
                           out1)
        out3 == ReplaceAll(Transparent(Word.with), Word.with \o AWhiteBackground, out2)
        out4 == ReplaceAll(Background(Word.transparent), WhiteBackground, out3)
        out5 == ReplaceAll(Background(Word.no), WhiteBackground, out4)
        out6 == ReplaceAll(Background(Word.alpha), WhiteBackground, out5)
        out7 == ReplaceAll(Background(Word.clear), WhiteBackground, out6)
    IN  ReplaceAll(Isolated, ISOLATED_PHRASE, out7)

\* the maxChars generatePrompts hands on (line 996)
MAX_CHARS == 250

\* text.split(/\r?\n/).map(s => s.trim()).filter(Boolean)[0] || "" (line 936)
RECURSIVE FirstLine(_)
FirstLine(text) ==
    LET breaks == { i \in 1..Len(text) : text[i] = "\n" }
        stop == IF breaks = {} THEN Len(text) + 1
                ELSE CHOOSE i \in breaks : \A j \in breaks : i <= j
        first == trim(SubSeq(text, 1, stop - 1))
    IN  IF Len(first) > 0 \/ breaks = {} THEN first
        ELSE FirstLine(SubSeq(text, stop + 1, Len(text)))

\* /transparent\s+background/i (line 948)
StillTransparent == << Lit(Word.transparent), Ws(1), Lit(Word.background) >>

\* the condition of lines 946 and 948: is the line rewritten and suffixed?
rewrite(line, cut) == cut.cutout \/ cut.checker \/ Test(StillTransparent, line)

\* processApiResponse for the output format 'txt' (lines 936-955), with `cut`
\* what detectCutoutOrCheckerboard returned; detectCopySpace's result is not
\* used. The branch of the format 'json' (lines 918-933) is not modelled.
processApiResponse(text, cut, maxChars) ==
    LET line == stripCopySpace(FirstLine(text))
        white == IF rewrite(line, cut)
                 THEN addSuffixSafely(forceWhiteBackground(line), ISOLATED_PHRASE,
                                      maxChars)
                 ELSE line
    IN  clampToMaxChars(white, maxChars)

\* s, n times
RECURSIVE Repeat(_, _)
Repeat(s, n) == IF n = 0 THEN << >> ELSE s \o Repeat(s, n - 1)

\* the words of the long subject; with 46 of them a response reaches MAX_CHARS
\* only with what follows the subject
FillerWords == 46

\* the parts the raw responses are made of: a subject, mentions of the
\* background, mentions of copy space, and endings
Part ==
    [ cat |-> <<"A"," ","c","a","t">>,
      onTransparent |-> <<" ","o","n"," ","a"," ","t","r","a","n","s","p","a",
          "r","e","n","t"," ","b","a","c","k","g","r","o","u","n","d">>,
      isolatedOnWhite |-> <<" ","i","s","o","l","a","t","e","d"," ","o","n",
          " ","w","h","i","t","e"," ","b","a","c","k","g","r","o","u","n","d"
          >>,
      withNoBackground |-> <<" ","W","i","t","h"," ","N","o"," "," ","B","a",
          "c","k","g","r","o","u","n","d">>,
      semiTransparent |-> <<" ","o","n"," ","s","e","m","i","t","r","a","n",
          "s","p","a","r","e","n","t"," ","b","a","c","k","g","r","o","u","n",
          "d","s">>,
      copyLeft |-> <<","," ","c","o","p","y"," ","s","p","a","c","e"," ","o",
          "n"," ","t","h","e"," ","l","e","f","t">>,
      copyTowards |-> <<","," ","C","o","p","y"," "," ","s","p","a","c","e",
          " ","t","o","w","a","r","d","s"," ","t","h","e"," ","t","o","p"," ",
          ",">>,
      copyCopy |-> <<","," ","c","o","p","y"," ","c","o","p","y"," ","s","p",
          "a","c","e"," ","s","p","a","c","e">>,
      softLight |-> <<","," ","s","o","f","t"," ","l","i","g","h","t",".">>,
      secondLine |-> <<" ","\n","s","e","c","o","n","d"," ","l","i","n","e">> ]

\* "grey grey ... grey cat"
LongCat == Repeat(<< "g", "r", "e", "y", " " >>, FillerWords) \o << "c", "a", "t" >>

\* the responses shorter than MAX_CHARS
ShortResponses ==
    { lead \o Part.cat \o ground \o copy \o tail :
        lead \in { << >>, << " ", "\n", " " >> },
        ground \in { << >>, Part.onTransparent, Part.isolatedOnWhite,
                     Part.withNoBackground, Part.semiTransparent },
        copy \in { << >>, Part.copyLeft, Part.copyTowards, Part.copyCopy },
        tail \in { << >>, Part.softLight, Part.secondLine } }

\* the responses of about MAX_CHARS characters and more
LongResponses ==
    { LongCat \o c \o d :
        c \in { << >>, Part.onTransparent, Part.isolatedOnWhite },
        d \in { << >>, Part.copyLeft } }

\* the raw responses handed to processApiResponse
Responses == ShortResponses \cup LongResponses

\* A call processApiResponse(text, imageDataUrl, options) of any response, for
\* the output format 'txt', whatever the detector says of the image
ResponseInit ==
    /\ Constructed({ << >> })
    /\ ~state.licenseValid
    /\ work \in [ fn : {"process"}, text : Responses,
                  cut : [cutout : BOOLEAN, checker : BOOLEAN],
                  maxChars : { MAX_CHARS }, out : { << >> }, step : {0} ]

processCall ==
    /\ work.fn = "process" /\ work.step = 0
    /\ work' = [work EXCEPT
                  !.out = processApiResponse(work.text, work.cut, work.maxChars),
                  !.step = 1]
    /\ UNCHANGED app

ResponseSpec == ResponseInit /\ [][processCall]_vars

-----------------------------------------------------------------------------
\* The end of detectCopySpace (lines 286-299): from the mean activity of the
\* four border regions and of the centre to the result. The means are whole
\* numbers here; what comes before (decoding the image, the gradient, the sums
\* of analyzeRegion) is the source of the means and is not modelled.

\* the largest mean of a region
MaxMean == 4

\* mean < threshold with threshold = center * 0.4 (lines 292, 294-297); for
\* whole means the product in floating point is exact to within less than
\* half a unit in the last place, so the comparison is that of 10 * mean with
\* 4 * center
BelowThreshold(mean, center) == 10 * mean < 4 * center

\* before line 294: side = null, minActivity = Infinity
NoSide == [side |-> "null", minActivity |-> 0]

\* one of the lines 294-297
Flag(cur, side, mean, center) ==
    IF BelowThreshold(mean, center) /\ (cur.side = "null" \/ mean < cur.minActivity)
    THEN [side |-> side, minActivity |-> mean]
    ELSE cur

\* lines 292-299; the score is the fraction num / den
copySpaceResult(left, right, top, bottom, center) ==
    LET l == Flag(NoSide, "left", left, center)
        r == Flag(l, "right", right, center)
        t == Flag(r, "top", top, center)
        b == Flag(t, "bottom", bottom, center)
    IN  [ isCopySpace |-> b.side # "null",
          side |-> b.side,
          score |-> IF b.side # "null"
                    THEN [num |-> center - b.minActivity, den |-> center]
                    ELSE [num |-> 0, den |-> 1] ]

\* A call of detectCopySpace on an image with any means of the five regions
CopySpaceInit ==
    /\ Constructed({ << >> })
    /\ ~state.licenseValid
    /\ work \in [ fn : {"copySpace"}, left : 0..MaxMean, right : 0..MaxMean,
                  top : 0..MaxMean, bottom : 0..MaxMean, center : 0..MaxMean,
                  out : { copySpaceResult(0, 0, 0, 0, 0) }, step : {0} ]

detectCopySpace ==
    /\ work.fn = "copySpace" /\ work.step = 0
    /\ work' = [work EXCEPT
                  !.out = copySpaceResult(work.left, work.right, work.top,
                                          work.bottom, work.center),
                  !.step = 1]
    /\ UNCHANGED app

CopySpaceSpec == CopySpaceInit /\ [][detectCopySpace]_vars

-----------------------------------------------------------------------------
\* The activations that are inside callGeminiAPI
CallPcs ==
    { "iter", "sleepPick", "sleepGate", "fetch", "sleep429", "sleep5xx",
      "sleepEmpty", "sleepCatch", "process" }

FailsOf(ks, k) == IF k \in DOMAIN ks THEN ks[k].fails ELSE 0

InCall == { p \in Slots : inv[p].pc \in CallPcs }

\* C1: one invocation of callGeminiAPI with n keys issues at most 3n network
\* attempts; each iteration of the loop uses up one unit of the budget whatever
\* its outcome (the iteration counter equals the attempts issued, plus one
\* while the iteration has not reached its fetch yet); and once an attempt has
\* succeeded (the invocation is processing the response) the invocation issues
\* no further attempt: its next step ends it.
WithinBudget(rec) ==
    /\ rec.issued <= 3 * Len(rec.apiKeys)
    /\ rec.attempt <= 3 * Len(rec.apiKeys)
    /\ rec.attempt = IF rec.pc \in {"sleepPick", "sleepGate"} THEN rec.issued + 1
                                                              ELSE rec.issued

Thm_C1 ==
    [][ \A p \in Slots :
          /\ inv'[p].pc \in CallPcs => WithinBudget(inv'[p])
          /\ inv[p].pc = "process" /\ inv'[p].pc \in CallPcs =>
                inv'[p].pc = "process" /\ inv'[p].issued = inv[p].issued
      ]_vars

\* an invocation with two keys that has used all six attempts, none successful
Witness_C1 ==
    \E p \in Slots :
        /\ inv[p].pc = "iter"
        /\ Len(inv[p].apiKeys) = 2
        /\ inv[p].issued = 6

\* C2: when every timer fires and every network call completes, every
\* invocation of callGeminiAPI eventually returns or throws, whatever the
\* outcomes of its attempts and the state of the pool: no infinite retry.
Thm_C2 == \A p \in Slots : (inv[p].pc \in CallPcs) ~> (inv[p].pc \notin CallPcs)

\* six attempts with two keys all ended in a 5xx response: the invocation is
\* about to throw the generic error
Witness_C2 ==
    \E p \in Slots :
        /\ inv[p].pc = "iter"
        /\ inv[p].attempt = 6
        /\ inv[p].lastError = "none"
        /\ FailsOf(keyState, "k1") = 0 /\ FailsOf(keyState, "k2") = 0

\* nextAt of a key, 0 for a key without state
NextAtOf(k) == IF k \in DOMAIN keyState THEN keyState[k].nextAt ELSE 0

\* the positions of the available keys in a list
Available(keys) == { i \in 1..Len(keys) : NextAtOf(keys[i]) <= DateNow }

\* the earliest nextAt among the keys of a list
EarliestNextAt(keys) ==
    LET all == { NextAtOf(keys[i]) : i \in 1..Len(keys) }
    IN  CHOOSE m \in all : \A x \in all : m <= x

Least(S) == CHOOSE i \in S : \A j \in S : i <= j

\* activation p runs the head of a loop iteration (and so pickBestKey) in this step
Iterates(p) == inv[p].pc = "iter" /\ inv'[p].attempt = inv[p].attempt + 1

\* C3: when some key of the list has nextAt <= now (a key without state counts
\* as nextAt = 0), the iteration takes the first such key in list order and
\* pickBestKey does not sleep.
Thm_C3 ==
    [][ \A p \in Slots :
          LET keys == inv[p].apiKeys
          IN  Iterates(p) /\ Available(keys) # {} =>
                /\ inv'[p].apiKey = keys[Least(Available(keys))]
                /\ ~inv'[p].slept
                /\ inv'[p].pc \in {"sleepGate", "fetch"}
      ]_vars

\* the second key was taken at once while the first one was cooling
Witness_C3 ==
    \E p \in Slots :
        /\ inv[p].pc = "fetch"
        /\ inv[p].apiKey = "k2"
        /\ ~inv[p].slept
        /\ NextAtOf("k1") > DateNow

\* C4: when every key of the list has nextAt > now, pickBestKey sleeps exactly
\* (least nextAt) - now and then returns the key holding that least nextAt, the
\* first in list order when several hold it.
Thm_C4 ==
    [][ \A p \in Slots :
          LET keys == inv[p].apiKeys
              m    == EarliestNextAt(keys)
          IN  /\ Iterates(p) /\ Available(keys) = {} =>
                    /\ inv'[p].pc = "sleepPick"
                    /\ inv'[p].slept
                    /\ inv'[p].wakeAt - DateNow = m - DateNow
                    /\ inv'[p].apiKey =
                         keys[Least({ i \in 1..Len(keys) : NextAtOf(keys[i]) = m })]
              /\ inv[p].pc = "sleepPick" /\ inv'[p].pc # "sleepPick" =>
                    /\ inv[p].wakeAt <= DateNow
                    /\ inv'[p].apiKey = inv[p].apiKey
                    /\ inv'[p].pc \in {"sleepGate", "fetch"}
      ]_vars

\* both keys cool until the same instant, and the sleep is for the first one
Witness_C4 ==
    \E p \in Slots :
        /\ inv[p].pc = "sleepPick"
        /\ inv[p].apiKeys = <<"k1", "k2">>
        /\ NextAtOf("k1") = NextAtOf("k2")
        /\ NextAtOf("k1") > DateNow
        /\ inv[p].apiKey = "k1"
        /\ inv[p].wakeAt = NextAtOf("k1")

\* C5: the k-th markKey429 on a key in a row (k >= 1, counted from a key with
\* fails = 0, no markKeyOK on it in between) leaves the key with
\* nextAt - now = min(COOLDOWN_MAX_MS, 30000 * k): the cooldown grows by 30 s
\* per failure and never exceeds ten minutes.
Thm_C5 ==
    [][ \A k \in Keys :
          streak'[k] = streak[k] + 1 =>
            /\ k \in DOMAIN keyState'
            /\ keyState'[k].nextAt - DateNow =
                 (IF 30000 * streak'[k] < 600000 THEN 30000 * streak'[k] ELSE 600000)
      ]_vars

\* the 21st failure in a row of the only key: 630000 ms are cut to the cap
Witness_C5 ==
    /\ streak["k1"] = 21
    /\ NextAtOf("k1") = DateNow + 600000

\* the attempt of activation p returns a usable payload in this step
Succeeds(p) == inv[p].pc = "fetch" /\ inv'[p].pc = "process"

\* the step leaves the pool entry of key k as it is
SameEntry(k) ==
    /\ k \in DOMAIN keyState' <=> k \in DOMAIN keyState
    /\ k \in DOMAIN keyState => keyState'[k] = keyState[k]

\* C6: markKeyOK sets the key's fails to 0 and nextAt to 0 whatever they were
\* and sets lastApiCallAt to the present; the retry loop applies it to the key
\* of the attempt that returned a usable payload, to no other key and at no
\* other moment.
Thm_C6 ==
    [][ /\ \A p \in Slots :
             Succeeds(p) =>
               /\ inv[p].apiKey \in DOMAIN keyState'
               /\ keyState'[inv[p].apiKey] = [nextAt |-> 0, fails |-> 0]
               /\ lastApiCallAt' = DateNow
               /\ \A k \in Keys \ {inv[p].apiKey} : SameEntry(k)
        /\ lastApiCallAt' = DateNow /\ lastApiCallAt # DateNow =>
             \E p \in Slots : Succeeds(p)
      ]_vars

\* the only key succeeds after an attempt with it was penalized in the same call
Witness_C6 ==
    \E p \in Slots :
        /\ inv[p].pc = "process"
        /\ inv[p].apiKeys = <<"k1">>
        /\ inv[p].lastError \in {"api", "rate"}
        /\ keyState["k1"] = [nextAt |-> 0, fails |-> 0]
        /\ lastApiCallAt = DateNow

\* the attempt of activation p ends in this step with an outcome that penalizes
\* its key: 429, another client error, or an exception
IsPenalized(p) ==
    inv[p].pc = "fetch" /\ inv'[p].pc \in {"sleep429", "iter", "sleepCatch"}

\* C7: a key's fails changes only by +1, on a penalizing outcome of an attempt
\* made with that key, or to 0, on a success of an attempt made with that key;
\* each such outcome does change it so; the outcomes of the other keys'
\* attempts leave it alone.
Thm_C7 ==
    [][ \A k \in Keys :
          LET f == FailsOf(keyState, k)
              g == FailsOf(keyState', k)
          IN  /\ g # f =>
                   \E p \in Slots :
                       /\ inv[p].apiKey = k
                       /\ \/ IsPenalized(p) /\ g = f + 1
                          \/ Succeeds(p) /\ g = 0
              /\ \A p \in Slots :
                   /\ inv[p].apiKey = k /\ IsPenalized(p) => g = f + 1
                   /\ inv[p].apiKey = k /\ Succeeds(p) => g = 0
                   /\ inv[p].apiKey # k /\ inv[p].pc = "fetch" /\ inv'[p].pc # "fetch"
                        => g = f
      ]_vars

\* k1 succeeds (fails back to 0) in a call in which k2 was penalized before
Witness_C7 ==
    \E p \in Slots :
        /\ inv[p].pc = "process"
        /\ inv[p].apiKey = "k1"
        /\ streak["k2"] = 2
        /\ FailsOf(keyState, "k2") = 2
        /\ FailsOf(keyState, "k1") = 0
        /\ inv[p].issued >= 4

\* C8: an attempt is issued only when at least MIN_DELAY_MS have passed since
\* the success last recorded in lastApiCallAt; before each attempt waitMinDelay
\* sleeps exactly max(0, MIN_DELAY_MS - (now - lastApiCallAt)).
Thm_C8 ==
    [][ \A p \in Slots :
          LET wait == 9000 - (DateNow - lastApiCallAt)
          IN  /\ inv[p].pc # "fetch" /\ inv'[p].pc = "fetch" =>
                    DateNow - lastApiCallAt >= 9000
              /\ inv[p].pc \in {"iter", "sleepPick"}
                   /\ inv'[p].pc \in {"sleepGate", "fetch"} =>
                    IF wait > 0
                    THEN inv'[p].pc = "sleepGate" /\ inv'[p].wakeAt - DateNow = wait
                    ELSE inv'[p].pc = "fetch"
      ]_vars

\* the second round of a batch waits out the rest of the 9000 ms that began
\* with the success of the first round, 1120 ms ago
Witness_C8 ==
    \E p \in Slots :
        /\ inv[p].pc = "sleepGate"
        /\ inv[p].i = 1
        /\ lastApiCallAt = DateNow - 1120
        /\ inv[p].wakeAt = DateNow + 7880

Active == { p \in Slots : inv[p].pc # "idle" }

InFlight == { p \in Slots : inv[p].pc = "fetch" }

\* C9: at most one network attempt is in flight at any time, and at most one
\* retry loop runs: while isGenerating is true no step starts a round of another
\* batch (a generatePrompts call then returns at once), and an activation
\* exists only while isGenerating is true.
Thm_C9 ==
    [][ /\ Cardinality(InFlight') <= 1
        /\ Cardinality(Active') <= 1
        /\ Active' # {} => state'.isGenerating
        /\ state.isGenerating =>
             \A p \in Slots : inv[p].pc = "idle" => inv'[p].pc = "idle"
      ]_vars

\* an attempt is in flight and a click on Generate would pass the license and
\* image guards: only isGenerating keeps it from starting a second loop
Witness_C9 ==
    /\ InFlight # {}
    /\ state.isGenerating
    /\ state.licenseValid
    /\ state.imageDataUrl = "ok"
    /\ FreeSlots # {}
    /\ fetched < MaxFetches

\* C10: a successful HTTP response whose payload is empty or cannot be parsed
\* records an error and goes on to the next iteration without penalizing the
\* key: the key's fails and nextAt are after the attempt what they were before.
Cex_C10 ==
    [][ \A p \in Slots, o \in {"okEmpty", "okBadJson"} :
          FetchReturns(p, o) =>
            /\ SameEntry(inv[p].apiKey)
            /\ inv'[p].lastError # "none"
            /\ inv'[p].pc \in RetrySleepPcs
      ]_vars

\* C10, the part that holds: a successful response that parses but holds no
\* text records the error, sleeps and goes on without penalizing the key.
Thm_C10_Empty ==
    [][ \A p \in Slots :
          FetchReturns(p, "okEmpty") =>
            /\ SameEntry(inv[p].apiKey)
            /\ inv'[p].lastError = "empty"
            /\ inv'[p].pc = "sleepEmpty"
      ]_vars

\* C11: an attempt that ends in a 5xx response leaves the pool and the gate as
\* they are (no key's fails or nextAt changes, lastApiCallAt does not change),
\* and lastApiCallAt is set by no attempt but a successful one.
Thm_C11 ==
    [][ /\ \A p \in Slots :
             /\ inv[p].pc = "fetch" /\ inv'[p].pc = "sleep5xx" =>
                   keyState' = keyState /\ lastApiCallAt' = lastApiCallAt
             /\ inv[p].pc = "fetch" /\ inv'[p].pc \notin {"fetch", "process"} =>
                   lastApiCallAt' = lastApiCallAt
        /\ lastApiCallAt' > lastApiCallAt => \E p \in Slots : Succeeds(p)
      ]_vars

\* a 5xx response has just arrived for an attempt made with k2, which had
\* failed once before and keeps that failure, while k1 goes on cooling
Witness_C11 ==
    \E p \in Slots :
        /\ inv[p].pc = "sleep5xx"
        /\ inv[p].wakeAt = DateNow + 1800
        /\ inv[p].apiKey = "k2"
        /\ FailsOf(keyState, "k2") = 1
        /\ FailsOf(keyState, "k1") = 2
        /\ NextAtOf("k1") > DateNow

\* C12: with two or more keys, the attempt that follows an attempt ended by a
\* client error (a response not ok, not 429, not 5xx) is made with another
\* key than the one just penalized, whatever the state of the pool.
Cex_C12 ==
    [][ \A p \in Slots :
          /\ inv[p].clientErr
          /\ Len(inv[p].apiKeys) >= 2
          /\ Iterates(p)
          => inv'[p].apiKey # inv[p].apiKey
      ]_vars

\* C12, the part that holds: the client error penalizes the key of the attempt
\* and records the error of the response.
Thm_C12_Penalized ==
    [][ \A p \in Slots :
          inv[p].pc = "fetch" /\ inv'[p].clientErr =>
            /\ FailsOf(keyState', inv[p].apiKey) = FailsOf(keyState, inv[p].apiKey) + 1
            /\ inv'[p].lastError = "api"
            /\ inv'[p].pc = "iter"
      ]_vars

\* activation p calls callGeminiAPI in this step: for the next round of its
\* batch, or, in the slot a click takes, for the first round of a new batch
Calls(p) ==
    \/ inv[p].pc = "sleepRound" /\ inv'[p].pc # "sleepRound"
    \/ /\ Active = {} /\ p = 1
       /\ ~state.isGenerating /\ state.licenseValid
       /\ state.imageDataUrl # "null"
       /\ generatePrompts(MainEnv)

\* the call of activation p fails at once and leaves pool and gate alone
FailsAtOnce(p) ==
    /\ inv'[p].pc = "idle"
    /\ ~state'.isGenerating
    /\ keyState' = keyState
    /\ lastApiCallAt' = lastApiCallAt
    /\ fetched' = fetched

\* C13 as stated: a call of callGeminiAPI with an image that is no base64 image
\* data URL fails at once with the invalid-image error: no key is selected, no
\* wait, no network attempt, keyState and lastApiCallAt unchanged.
Cex_C13 ==
    [][ \A p \in Slots :
          Calls(p) /\ state.imageDataUrl = "bad" =>
            FailsAtOnce(p) /\ batch'.error = "invalidImage"
      ]_vars

\* C13, amended: the same when at least one key is configured; with no key
\* configured the call fails at once as well, but with the missing-key error,
\* which is checked first.
Thm_C13 ==
    [][ \A p \in Slots :
          Calls(p) /\ state.imageDataUrl = "bad" =>
            /\ FailsAtOnce(p)
            /\ batch'.error =
                 IF Len(storedKeys) >= 1 THEN "invalidImage" ELSE "noKey"
      ]_vars

\* the second round of a batch failed on an image that was replaced by a
\* malformed one after the first round
Witness_C13 ==
    /\ batch = Failed("invalidImage")
    /\ Len(state.prompts) = 1
    /\ Active = {}

\* the error an attempt records, by the branch that ended it; the 429 branch
\* records its error after its sleep
RecordedBy(pc, lastError) ==
    CASE pc = "iter"       -> "api"
      [] pc = "sleepEmpty" -> "empty"
      [] pc = "sleepCatch" -> "exception"
      [] OTHER             -> lastError

\* C14: when the budget is used up without a success, callGeminiAPI throws
\* the error recorded by the latest attempt that recorded one, and the generic
\* error exactly when no attempt of the invocation recorded one; a 429, a
\* client error, an exception and an empty response record an error, a 5xx
\* response records none.
Thm_C14 ==
    [][ \A p \in Slots :
          LET rec == inv[p]
          IN  /\ rec.pc = "fetch" /\ inv'[p].pc # "fetch" =>
                   inv'[p].lastError = RecordedBy(inv'[p].pc, rec.lastError)
              /\ rec.pc \in RetrySleepPcs /\ inv'[p].pc = "iter" =>
                   inv'[p].lastError =
                     IF rec.pc = "sleep429" THEN "rate" ELSE rec.lastError
              /\ rec.pc \in {"iter", "sleepPick", "sleepGate"}
                   /\ inv'[p].pc \in CallPcs =>
                   inv'[p].lastError = rec.lastError
              /\ rec.pc = "iter" /\ inv'[p].pc = "idle" =>
                   /\ rec.attempt = 3 * Len(rec.apiKeys)
                   /\ batch' = [error |-> IF rec.lastError = "none"
                                          THEN "allFailed" ELSE rec.lastError,
                                saved |-> FALSE]
      ]_vars

\* a batch ended with the generic error after six attempts with two keys, none
\* of which was penalized
Witness_C14 ==
    /\ batch.error = "allFailed"
    /\ Len(storedKeys) = 2
    /\ fetched = 6
    /\ Active = {}
    /\ keyState = << >>

\* round i of activation p appends its prompt in this step
Appends(p) == inv[p].pc = "process" /\ inv'[p].pc # "process"

\* C15: the rounds of a batch run strictly in sequence (round i+1 begins, and
\* so issues its first attempt, only after the step that appended the prompt
\* of round i), and at every moment state.prompts[j] is the result of round j.
\* (The model's result of round i is i; sequences count from 1.)
Cex_C15 ==
    [][ /\ \A p \in Slots :
             /\ inv'[p].pc \in CallPcs /\ inv'[p].i > 0 /\ inv[p].pc \notin CallPcs =>
                   inv[p].pc = "sleepRound" /\ inv'[p].i = inv[p].i + 1
             /\ inv'[p].pc = "sleepRound" => inv[p].pc = "sleepRound" \/ Appends(p)
        /\ \A j \in 1..Len(state'.prompts) : state'.prompts[j] = j - 1
      ]_vars

\* C15, the part that holds: the prompts appended are in the order of their
\* rounds, and round i+1 calls callGeminiAPI, and so issues its first attempt,
\* only after the step that appended the prompt of round i.
Thm_C15_Sequence ==
    [][ /\ \A p \in Slots :
             /\ Appends(p) => state'.prompts = Append(state.prompts, inv[p].i)
             /\ inv'[p].pc \in CallPcs /\ inv'[p].i > 0 /\ inv[p].pc \notin CallPcs =>
                   inv[p].pc = "sleepRound" /\ inv'[p].i = inv[p].i + 1
             /\ inv[p].pc \in CallPcs /\ inv'[p].pc \in CallPcs =>
                   inv'[p].i = inv[p].i
        /\ Len(state'.prompts) > Len(state.prompts) =>
             \E p \in Slots : Appends(p)
      ]_vars

\* the round of activation p fails in this step: its callGeminiAPI throws, out
\* of the retry loop or before it
RoundFails(p) ==
    /\ inv'[p].pc = "idle"
    /\ \/ inv[p].pc \in {"iter", "sleepRound"}
       \/ Calls(p)

\* the error callGeminiAPI throws in the step in which the round of p fails
ErrorOf(p) ==
    IF inv[p].pc = "iter"
    THEN (IF inv[p].lastError = "none" THEN "allFailed" ELSE inv[p].lastError)
    ELSE (IF Len(storedKeys) = 0 THEN "noKey" ELSE "invalidImage")

\* C16: when a round of a batch fails the batch is over: its activation ends
\* without starting a later round and without a further attempt, nothing is
\* saved to the history, and the error shown is the one callGeminiAPI threw
\* for that round; the history is written only by the step that appends the
\* prompt of the last round.
Thm_C16 ==
    [][ /\ \A p \in Slots :
             RoundFails(p) =>
               /\ Active' = {}
               /\ ~state'.isGenerating
               /\ fetched' = fetched
               /\ batch' = [error |-> ErrorOf(p), saved |-> FALSE]
               /\ inv[p].pc # "idle" => state'.prompts = state.prompts
        /\ batch'.saved /\ batch' # batch =>
             \E p \in Slots : Appends(p) /\ inv[p].i = inv[p].numPrompts - 1
        /\ batch'.saved => batch'.error = "none"
      ]_vars

\* the second round of a batch used up its three attempts with the only key
\* and the batch ended with the error of a 429, one prompt made, nothing saved
Witness_C16 ==
    /\ batch = [error |-> "rate", saved |-> FALSE]
    /\ Len(state.prompts) = 1
    /\ Len(storedKeys) = 1
    /\ fetched >= 4
    /\ Active = {}


\* The last index (from 0) of a space in s, -1 without one
LastSpace(s) ==
    IF \E i \in 1..Len(s) : s[i] = " "
    THEN (CHOOSE i \in 1..Len(s) : s[i] = " " /\ \A j \in (i+1)..Len(s) : s[j] # " ") - 1
    ELSE -1

\* The first n characters of text, cut back to the last space among them
\* exactly when the index of that space is above 0.6 * n
CutBack(text, n) ==
    LET prefix == SubSeq(text, 1, n)
    IN  IF 10 * LastSpace(prefix) > 6 * n
        THEN SubSeq(prefix, 1, LastSpace(prefix))
        ELSE prefix

\* s without the punctuation and whitespace it ends with
WithoutTrailing(s) ==
    LET keep == { k \in 0..Len(s) :
                    /\ k > 0 => s[k] \notin TrailingClass
                    /\ \A j \in (k+1)..Len(s) : s[j] \in TrailingClass }
    IN  SubSeq(s, 1, CHOOSE k \in keep : TRUE)

\* s without the whitespace it begins with
WithoutLeading(s) ==
    LET drop == { k \in 0..Len(s) :
                    /\ k < Len(s) => s[k+1] \notin Whitespace
                    /\ \A j \in 1..k : s[j] \in Whitespace }
    IN  SubSeq(s, (CHOOSE k \in drop : TRUE) + 1, Len(s))

Clamped == work.fn = "clamp" /\ work.step = 1

Suffixed == work.fn = "suffix" /\ work.step >= 1

\* C17: for every line, phrase and positive maxChars, addSuffixSafely returns a
\* string of length at most maxChars, also when maxChars is no more than the
\* length of the join and the phrase.
Cex_C17 == Suffixed => Len(work.out) <= work.maxChars

\* What holds of C17: the result is no longer than maxChars when the phrase is
\* empty or already in the line, or when the join and the phrase leave room
\* for at least one character of the line.
Thm_C17_Room ==
    Suffixed /\ ( \/ Len(work.phrase) = 0
                  \/ PhraseIn(work.line, work.phrase)
                  \/ Len(Join(trim(work.line))) + Len(work.phrase) < work.maxChars )
        => Len(work.out) <= work.maxChars

\* C18: addSuffixSafely is idempotent: a second application to the result of
\* the first, with the same phrase and maxChars, returns that result, also for
\* a line that holds the phrase already and is longer than maxChars.
Cex_C18 == work.fn = "suffix" /\ work.step = 2 => work.again = work.out


\* does s hold sub, character for character
Contains(s, sub) ==
    \E i \in 1..(Len(s) - Len(sub) + 1) : SubSeq(s, i, i + Len(sub) - 1) = sub

EndsWith(s, sub) ==
    Len(s) >= Len(sub) /\ SubSeq(s, Len(s) - Len(sub) + 1, Len(s)) = sub

\* "copy space"
CopySpaceText == Word.copy \o << " " >> \o Word.space

\* "transparent background"
TransparentText == Word.transparent \o << " " >> \o Word.background

\* processApiResponse has returned for an image the detector found to be a
\* cutout or on a checkerboard
ProcessedCut ==
    work.fn = "process" /\ work.step = 1 /\ (work.cut.cutout \/ work.cut.checker)

Thm_C20_Example ==
    ProcessedCut =>
        /\ Len(work.out) <= work.maxChars
        /\ work.text = Part.cat \o Part.onTransparent \o Part.copyLeft =>
              /\ ~Contains(work.out, CopySpaceText)
              /\ ~Contains(work.out, TransparentText)
              /\ EndsWith(work.out, ISOLATED_PHRASE)


\* processApiResponse has returned
Processed == work.fn = "process" /\ work.step = 1

\* the line of a response after the copy space is stripped (lines 936, 943)
StrippedLine == stripCopySpace(FirstLine(work.text))

\* does the line mention a transparent, alpha, clear or no background
MentionsBackground(line) ==
    \E kind \in { Word.transparent, Word.alpha, Word.clear, Word.no } :
        Test(Background(kind), line)

\* the line rewritten to a white background and suffixed, then clamped
Whitened(line, maxChars) ==
    clampToMaxChars(
        addSuffixSafely(forceWhiteBackground(line), ISOLATED_PHRASE, maxChars),
        maxChars)

\* C21: in the text pipeline the rewrite to a white background and the suffix
\* "isolated on white background" are applied when the detector reports cutout
\* or checkerboard, and also when it reports neither but the stripped line
\* still mentions a transparent, alpha, clear or no background; in every other
\* case the line goes to the final clamp as it is.
Cex_C21 ==
    Processed =>
        work.out =
            IF \/ work.cut.cutout \/ work.cut.checker
               \/ MentionsBackground(StrippedLine)
            THEN Whitened(StrippedLine, work.maxChars)
            ELSE clampToMaxChars(StrippedLine, work.maxChars)

\* What holds of C21: the rewrite and the suffix are applied when the detector
\* reports cutout or checkerboard; without such a report a line that holds
\* "transparent", whitespace and "background" nowhere (inside longer words
\* included) goes to the clamp as it is, and a line that mentions a
\* "transparent background" is rewritten and suffixed.
Thm_C21_Transparent ==
    Processed =>
        /\ work.cut.cutout \/ work.cut.checker
             => work.out = Whitened(StrippedLine, work.maxChars)
        /\ ~work.cut.cutout /\ ~work.cut.checker
             /\ ~Test(StillTransparent, StrippedLine)
             => work.out = clampToMaxChars(StrippedLine, work.maxChars)
        /\ Test(Background(Word.transparent), StrippedLine)
             => work.out = Whitened(StrippedLine, work.maxChars)


Detected == work.fn = "copySpace" /\ work.step = 1

\* the mean detectCopySpace was given for a side
MeanOf(side) ==
    CASE side = "left" -> work.left
      [] side = "right" -> work.right
      [] side = "top" -> work.top
      [] side = "bottom" -> work.bottom

\* a region is flagged: its mean is below 0.4 * center
Flagged == { side \in { "left", "right", "top", "bottom" } :
               10 * MeanOf(side) < 4 * work.center }

\* the rest of C22: a side is reported only for a flagged region, and without
\* a flagged region or with a centre of mean 0 nothing is reported, score 0
SideAsFlagged ==
    /\ work.out.isCopySpace => work.out.side \in Flagged
    /\ Flagged = {} \/ work.center = 0 =>
          /\ ~work.out.isCopySpace
          /\ work.out.side = "null"
          /\ work.out.score.num = 0

\* C22: for all non-negative means of the five regions the score of the
\* copy-space result is in [0,1), never 1 or more; a side is reported only for
\* a region whose mean is below 0.4 * center; and the result is not present
\* with score 0 when no region is flagged or the mean of the centre is 0.
Cex_C22 ==
    Detected =>
        /\ work.out.score.den > 0
        /\ 0 <= work.out.score.num /\ work.out.score.num < work.out.score.den
        /\ SideAsFlagged

\* What holds of C22: the score is in [0,1], and it is 1 exactly when the
\* region reported has mean 0; the rest of the claim holds.
Thm_C22_Closed ==
    Detected =>
        /\ work.out.score.den > 0
        /\ 0 <= work.out.score.num /\ work.out.score.num <= work.out.score.den
        /\ work.out.score.num = work.out.score.den
              <=> work.out.isCopySpace /\ MeanOf(work.out.side) = 0
        /\ SideAsFlagged


\* activation p issues a network attempt in this step
Issues(p) == inv[p].pc # "fetch" /\ inv'[p].pc = "fetch"

\* C23: when a network attempt is issued, the key it uses has nextAt <= now:
\* no request is sent with a key that is still cooling down, also when every
\* key was cooling down when the key was selected.
Thm_C23 ==
    [][ \A p \in Slots :
          Issues(p) =>
            /\ inv'[p].apiKey \in Keys
            /\ keyState' = keyState
            /\ NextAtOf(inv'[p].apiKey) <= DateNow
      ]_vars

\* an attempt is in flight with a key that was selected while both keys were
\* cooling down (pickBestKey slept); the other key is cooling down still
Witness_C23 ==
    \E p \in Slots :
        /\ inv[p].pc = "fetch"
        /\ inv[p].slept
        /\ Len(inv[p].apiKeys) = 2
        /\ FailsOf(keyState, inv[p].apiKey) >= 1
        /\ NextAtOf(inv[p].apiKey) <= DateNow
        /\ \E k \in Keys : k # inv[p].apiKey /\ NextAtOf(k) > DateNow


\* a call of generatePrompts is made in this step
Clicks == generatePrompts(MainEnv)

\* C24: a call of generatePrompts made while state.licenseValid is false, or
\* while no image is loaded, issues no network attempt and changes neither
\* state.prompts, state.isGenerating, keyState nor lastApiCallAt (it starts no
\* round either: no activation changes).
Thm_C24 ==
    [][ Clicks /\ (~state.licenseValid \/ state.imageDataUrl = "null") =>
          /\ fetched' = fetched
          /\ inv' = inv
          /\ state'.prompts = state.prompts
          /\ state'.isGenerating = state.isGenerating
          /\ keyState' = keyState
          /\ lastApiCallAt' = lastApiCallAt
      ]_vars

\* a click on Generate can come now and only the missing image turns it down:
\* the license is valid, no batch runs, and there are prompts, key state and a
\* recent success that a batch would change
Witness_C24 ==
    /\ ~MicrotaskDue
    /\ state.licenseValid
    /\ ~state.isGenerating
    /\ state.imageDataUrl = "null"
    /\ Len(state.prompts) >= 1
    /\ keyState # << >>
    /\ lastApiCallAt > 0
    /\ FreeSlots # {}


\* C25: state.isGenerating is true exactly while a batch runs: every call of
\* generatePrompts that sets it to true sets it back to false in the end,
\* whether the batch completes all its rounds or a failed round aborts it, so
\* that a finished batch never blocks a later request.
Thm_C25 ==
    /\ [](state.isGenerating <=> Active # {})
    /\ state.isGenerating ~> ~state.isGenerating

\* a batch of two rounds was aborted by its second round, after the first had
\* delivered its prompt, and isGenerating is false again
Witness_C25 ==
    /\ ~state.isGenerating
    /\ Active = {}
    /\ Len(state.prompts) = 1
    /\ batch.error \notin { "none", "noKey", "invalidImage" }
    /\ ~batch.saved

=============================================================================
